---- MODULE Spec2Model ----
(***************************************************************************)
(* Bedfellows: the relationship-score pipeline of                          *)
(* bedfellows/calculators/overall.py over the tables of                    *)
(* bedfellows/models.py.                                                   *)
(*                                                                         *)
(* Tables are modelled by their rows.  A table whose rows can repeat       *)
(* (fec_committee_contributions, fec_contributions, final_scores) is a bag *)
(* of rows; a table filled by one GROUP BY over all its columns is a set.  *)
(* SQL NULL is the string NULL for text columns and NullDate for dates.    *)
(* Numbers the SQL engine divides are exact rationals <<n, d>>, d > 0, in  *)
(* lowest terms; <<0, 0>> is the SQL NULL a division by zero yields.       *)
(* The raw rows are the rows FecCommitteeContributions.load_from_csv can   *)
(* store: a short line leaves its trailing columns NULL.                   *)
(* The engines are SQLite and MySQL in its default sql_mode (strict, with  *)
(* ERROR_FOR_DIVISION_BY_ZERO).                                            *)
(***************************************************************************)
EXTENDS Integers, Sequences, FiniteSets, Bags, TLC

VARIABLES
    database_type,                 \* the SQL engine of the connected database
    csv_files,                     \* the files present under data/csv
    weights,                       \* BaseCalculator.weights
    sorted_field_names,            \* FecContributions._meta.sorted_field_names
    fec_committees,                \* table fec_committees
    fec_committee_contributions,   \* table fec_committee_contributions (raw)
    fec_contributions,             \* table fec_contributions (filtered)
    total_donated_by_contributor,  \* table total_donated_by_contributor
    exclusivity_scores,            \* table exclusivity_scores
    unnormalized_length_scores,    \* table unnormalized_length_scores
    max_length_score,              \* table max_length_score
    length_scores,                 \* table length_scores
    final_scores,                  \* table final_scores
    report_type_weights,           \* table report_type_weights
    contribution_limits,           \* table contribution_limits
    score_weights_csv,             \* the file data/csv/score_weights.csv
    score_weights,                 \* table score_weights
    run_start,                     \* the derived tables as the current run found them
    rebuilt,                       \* the tables dropped and recreated by the run
                                   \* in progress or just ended, until the next load
    pc,                            \* position of the caller in compute_scores
    filter_calls,                  \* Filter invocations since the inputs changed
    filter_error,                  \* Filter raised, and nothing was loaded since
    runs_in_a_row,                 \* completed runs since anything else changed
    environ,                       \* os.environ, the variables Config reads
    config_file,                   \* the options of the .ini file given to Config
    load_env,                      \* the load_env argument of Config
    config,                        \* Config.config after __init__
    fec_candidates,                \* table fec_candidates
    validation,                    \* what the last validate_all call gave
    base_url,                      \* BaseFetcher.base_url
    parts,                         \* the arguments of the last build_url call
    url,                           \* what that call returned
    disk,                          \* the file at the output path of url
    download,                      \* the last download call and how it ended
    limit,                         \* the argument of the last get_results call
    results                        \* the records that call returned, in order

vars == <<database_type, weights, sorted_field_names, fec_committees,
          fec_committee_contributions, fec_contributions,
          total_donated_by_contributor, exclusivity_scores,
          unnormalized_length_scores, max_length_score, length_scores,
          final_scores, pc, filter_calls, filter_error, runs_in_a_row,
          csv_files, report_type_weights, contribution_limits, run_start,
          limit, results, environ, config_file, load_env, config,
          fec_candidates, validation, rebuilt, base_url, parts, url,
          disk, download, score_weights_csv, score_weights>>

\* What the stages of compute_scores and the loaders never touch.
others == <<limit, results, environ, config_file, load_env, config,
            fec_candidates, validation, base_url, parts, url, disk,
            download, score_weights_csv>>

(***************************************************************************)
(* Bounds of the model.                                                    *)
(***************************************************************************)
MaxRaw == 2
MaxFiltered == 2
MaxCandidates == 2
MaxParts == 2

(***************************************************************************)
(* SQL values.                                                             *)
(***************************************************************************)
NULL == "NULL"
NullDate == -1
NullNum == <<0, 0>>
Zero == <<0, 1>>
One == <<1, 1>>

Abs(x) == IF x < 0 THEN -x ELSE x

RECURSIVE Gcd(_, _)
Gcd(a, b) == IF b = 0 THEN a ELSE Gcd(b, a % b)

\* n / d as the engine computes it: NULL when d = 0.
Frac(n, d) ==
    IF d = 0 THEN NullNum
    ELSE LET g == Gcd(Abs(n), Abs(d))
             s == IF d < 0 THEN -1 ELSE 1
         IN  <<(s * n) \div g, (s * d) \div g>>

Coalesce(x, dflt) == IF x = NullNum THEN dflt ELSE x
RAdd(x, y) == Frac(x[1] * y[2] + y[1] * x[2], x[2] * y[2])
RScale(x, k) == Frac(x[1] * k, x[2])
RLe(x, y) == x[1] * y[2] <= y[1] * x[2]
RDivInt(x, k) == Frac(x[1], x[2] * k)

\* a = b in SQL's three-valued logic, as a WHERE or ON clause takes it.
SqlEq(a, b) == a # NULL /\ b # NULL /\ a = b

RECURSIVE SumFn(_, _)
SumFn(f, S) ==
    IF S = {} THEN 0
    ELSE LET x == CHOOSE y \in S : TRUE IN f[x] + SumFn(f, S \ {x})

RECURSIVE RSumFn(_, _)
RSumFn(f, S) ==
    IF S = {} THEN Zero
    ELSE LET x == CHOOSE y \in S : TRUE IN RAdd(f[x], RSumFn(f, S \ {x}))

Max(S) == CHOOSE x \in S : \A y \in S : y <= x
Min(S) == CHOOSE x \in S : \A y \in S : x <= y

Rows(B) == BagToSet(B)
CountRows(B, S) == SumFn([r \in S |-> B[r]], S)
SumAmount(B, S) == SumFn([r \in S |-> r.amount * B[r]], S)

(***************************************************************************)
(* Inputs.                                                                 *)
(***************************************************************************)
Contribution(cid, cname, oid, rname, amt, dt) ==
    [fec_committee_id |-> cid, contributor_name |-> cname, other_id |-> oid,
     recipient_name |-> rname, amount |-> amt, date |-> dt]

ContributionInputs ==
    { Contribution("C1", "PAC ONE", "R1", "REC ONE", 600, 0),
      Contribution("C1", "PAC ONE", "R2", "REC TWO", 400, 0),
      Contribution("C1", "PAC ONE", "R1", "REC ONE", 400, 100),
      Contribution("C1", "PAC ONE", "R1", "REC ONE INC", 400, 0),
      Contribution("C1", "PAC ONE INC", "R2", "REC TWO", 400, 0),
      Contribution("C1", "PAC ONE", "R2", "REC TWO", -100, NullDate),
      Contribution("C1", "PAC ONE", "S1", "SUPER ONE", 400, 0),
      Contribution("S1", "SUPER ONE", "R1", "REC ONE", 600, 100),
      Contribution("C1", "PAC ONE", NULL, NULL, 600, 0) }

Committee(id, super) == [fecid |-> id, is_super_pac |-> super]

CommitteeInputs ==
    { Committee("S1", TRUE), Committee("R2", FALSE) }

DefaultWeights ==
    [exclusivity |-> 1, report_type |-> 1, periodicity |-> 1,
     maxed_out |-> 1, length |-> 1, race_focus |-> 1]

WeightConfigs ==
    { DefaultWeights,
      [DefaultWeights EXCEPT !.exclusivity = 3, !.report_type = 2] }

DatabaseTypes == {"sqlite", "mysql"}

FieldNames ==
    <<"id", "fec_committee_id", "report_type", "contributor_name", "date",
      "amount", "other_id", "recipient_name", "cycle">>

(***************************************************************************)
(* Filter: FecContributions.load_from_committee_contributions.             *)
(***************************************************************************)
SuperPacIds(committees) ==
    {c.fecid : c \in {x \in committees : x.is_super_pac}}

\* column NOT IN (ids): peewee renders an empty list as (1 = 1); otherwise
\* SQL's NOT IN, which is not TRUE for a NULL column or a NULL in the list.
NotIn(x, ids) ==
    IF ids = {} THEN TRUE
    ELSE x # NULL /\ NULL \notin ids /\ x \notin ids

\* The columns the two tables share are copied; amount (an integer in the
\* raw table, text in the filtered one) is read back by CAST as the number.
FilteredRow(r) ==
    Contribution(r.fec_committee_id, r.contributor_name, r.other_id,
                 r.recipient_name, r.amount, r.date)

FilterSelect(raw, committees) ==
    LET ids == SuperPacIds(committees)
        kept == {r \in Rows(raw) : NotIn(r.fec_committee_id, ids)
                                   /\ NotIn(r.other_id, ids)}
        out == {FilteredRow(r) : r \in kept}
    IN  [o \in out |-> SumFn([r \in kept |->
                                 IF FilteredRow(r) = o THEN raw[r] ELSE 0], kept)]

\* keys.remove(primary key) on the list the model class itself holds.
HasPrimaryKey(names) == \E i \in 1..Len(names) : names[i] = "id"
RemovePrimaryKey(names) == SelectSeq(names, LAMBDA n : n # "id")

\* INSERT INTO fec_contributions ... SELECT: the rows are added to the table.
InsertFrom(table, rows) == table (+) rows

(***************************************************************************)
(* Exclusivity: compute_exclusivity_scores.                                *)
(***************************************************************************)
TotalRows(fc) ==
    LET keys == {<<r.fec_committee_id, r.contributor_name>> : r \in Rows(fc)}
    IN  { [fec_committee_id |-> k[1], contributor_name |-> k[2],
           total_by_PAC |-> SumAmount(fc, {r \in Rows(fc) :
                               r.fec_committee_id = k[1]
                               /\ r.contributor_name = k[2]})] : k \in keys }

\* A sum over the distinct rows of the group: repeated rows counted once.
PairAmountDistinct(fc, group) == SumFn([r \in group |-> r.amount], group)

\* SUM(amount) of one GROUP BY group of the joined rows.
PairAmount(fc, group) == SumAmount(fc, group)

ExclusivityRows(fc, td) ==
    LET joined == {<<r, t>> \in Rows(fc) \X td :
                      SqlEq(r.fec_committee_id, t.fec_committee_id)
                      /\ SqlEq(r.contributor_name, t.contributor_name)}
        keys == {<<j[1].fec_committee_id, j[1].other_id, j[1].contributor_name,
                   j[1].recipient_name, j[2].total_by_PAC>> : j \in joined}
        Group(k) == {j[1] : j \in {x \in joined :
                        <<x[1].fec_committee_id, x[1].other_id,
                          x[1].contributor_name, x[1].recipient_name,
                          x[2].total_by_PAC>> = k}}
    IN  { [fec_committee_id |-> k[1], contributor_name |-> k[3],
           total_by_pac |-> k[5], other_id |-> k[2], recipient_name |-> k[4],
           amount |-> PairAmount(fc, Group(k))] : k \in keys }

(***************************************************************************)
(* Length: compute_length_scores.                                          *)
(***************************************************************************)
\* DATEDIFF is a function of MySQL; SQLite has none, and the INSERT raises.
HasDateDiff(db) == db = "mysql"

LengthRows(fc) ==
    LET dated == {r \in Rows(fc) : r.date # NullDate}
        keys == {<<r.fec_committee_id, r.other_id, r.contributor_name,
                   r.recipient_name>> : r \in dated}
        Group(k) == {r \in dated : <<r.fec_committee_id, r.other_id,
                        r.contributor_name, r.recipient_name>> = k}
        having == {k \in keys : CountRows(fc, Group(k)) > 1}
    IN  { [fec_committee_id |-> k[1], contributor_name |-> k[3],
           other_id |-> k[2], recipient_name |-> k[4],
           max_date |-> Max({r.date : r \in Group(k)}),
           min_date |-> Min({r.date : r \in Group(k)}),
           length_score |-> Max({r.date : r \in Group(k)})
                            - Min({r.date : r \in Group(k)})] : k \in having }

\* The NOT NULL columns of UnnormalizedLengthScores, LengthScores, FinalScores.
NotNullOk(row) ==
    /\ row.fec_committee_id # NULL
    /\ row.contributor_name # NULL
    /\ row.other_id # NULL
    /\ row.recipient_name # NULL

\* max_length = result[0] if result and result[0] else 1
MaxLength(rows) ==
    IF rows = {} THEN 1
    ELSE LET m == Max({r.length_score : r \in rows})
         IN  IF m = 0 THEN 1 ELSE m

NormalizedLengthRows(rows, max_length) ==
    { [r EXCEPT !.length_score = Frac(r.length_score, max_length)] : r \in rows }

(***************************************************************************)
(* Combine: compute_final_scores.                                          *)
(***************************************************************************)
\* The table kept as it is: no drop before the INSERT.
FinalKept(table) == table

\* DROP TABLE final_scores; CREATE TABLE final_scores.
FinalDropped(table) == EmptyBag

\* The sum of all six weights as the divisor.
SixWeightDenominator(w) ==
    w.exclusivity + w.report_type + w.periodicity + w.maxed_out + w.length
    + w.race_focus

\* ({w_excl} + {w_len}), the divisor of the combine query.
CombineDenominator(w) == w.exclusivity + w.length

FinalScore(e, l, w) ==
    IF CombineDenominator(w) = 0 THEN NullNum
    ELSE Frac(e[1] * w.exclusivity * l[2] + l[1] * w.length * e[2],
              e[2] * l[2] * CombineDenominator(w))

\* fec_contributions LEFT JOIN exclusivity_scores LEFT JOIN length_scores,
\* on the two ids; an unmatched side is a row of NULLs.
NoRow == [present |-> FALSE]
Matched(row) == [present |-> TRUE, row |-> row]

JoinedRows(fc, es, ls) ==
    LET EsOf(r) ==
            LET m == {e \in es : SqlEq(r.fec_committee_id, e.fec_committee_id)
                                 /\ SqlEq(r.other_id, e.other_id)}
            IN  IF m = {} THEN {NoRow} ELSE {Matched(e) : e \in m}
        LsOf(r) ==
            LET m == {l \in ls : SqlEq(r.fec_committee_id, l.fec_committee_id)
                                 /\ SqlEq(r.other_id, l.other_id)}
            IN  IF m = {} THEN {NoRow} ELSE {Matched(l) : l \in m}
    IN  UNION { {<<r, e, l>> : e \in EsOf(r), l \in LsOf(r)} : r \in Rows(fc) }

\* es.amount / es.total_by_pac and ls.length_score of a joined row.
EsRatio(e) == IF e.present THEN Frac(e.row.amount, e.row.total_by_pac) ELSE NullNum
LsScore(l) == IF l.present THEN l.row.length_score ELSE NullNum

\* GROUP BY fc ids and names, es.amount, es.total_by_pac, ls.length_score.
GroupKey(j) ==
    <<j[1].fec_committee_id, j[1].other_id, j[1].contributor_name,
      j[1].recipient_name,
      IF j[2].present THEN <<TRUE, j[2].row.amount, j[2].row.total_by_pac>>
                      ELSE <<FALSE, 0, 0>>,
      LsScore(j[3])>>

FinalRow(fc, group, w) ==
    LET j == CHOOSE x \in group : TRUE
        excl == Coalesce(EsRatio(j[2]), Zero)
        len == Coalesce(LsScore(j[3]), Zero)
    IN  [fec_committee_id |-> j[1].fec_committee_id,
         contributor_name |-> j[1].contributor_name,
         other_id |-> j[1].other_id,
         recipient_name |-> j[1].recipient_name,
         count |-> SumFn([x \in group |-> fc[x[1]]], group),
         exclusivity_score |-> excl,
         report_type_score |-> Zero,
         periodicity_score |-> Zero,
         maxed_out_score |-> Zero,
         length_score |-> len,
         race_focus_score |-> Zero,
         final_score |-> FinalScore(excl, len, w)]

\* The rows of the SELECT, one per group, as the list the INSERT receives.
FinalSelect(fc, es, ls, w) ==
    LET joined == JoinedRows(fc, es, ls)
        keys == {GroupKey(j) : j \in joined}
        RowOf(k) == FinalRow(fc, {j \in joined : GroupKey(j) = k}, w)
        rows == {RowOf(k) : k \in keys}
    IN  [row \in rows |-> Cardinality({k \in keys : RowOf(k) = row})]

\* Every column of FinalScores the INSERT fills is NOT NULL.
FinalInsertOk(rows) ==
    \A row \in Rows(rows) : NotNullOk(row) /\ row.final_score # NullNum

(***************************************************************************)
(* Config: defaults, then the .ini file, then the environment.             *)
(***************************************************************************)
WeightKeys ==
    {"weight_exclusivity", "weight_report_type", "weight_periodicity",
     "weight_maxed_out", "weight_length", "weight_race_focus"}

DEFAULTS ==
    [k \in {"database_type", "mysql_port", "mysql_password"} \cup WeightKeys |->
        CASE k = "database_type" -> "sqlite"
          [] k = "mysql_port" -> 3306
          [] k = "mysql_password" -> ""
          [] OTHER -> 1]

\* int(s) and float(s) of the decimal numerals the inputs use.
Numerals == ("0" :> 0) @@ ("3" :> 3) @@ ("2" :> 2) @@ ("3307" :> 3307)
            @@ ("5433" :> 5433)
int(s) == Numerals[s]
float(s) == Numerals[s]

\* The environment variable of a key, and weight.lower().
upper ==
    [k \in DOMAIN DEFAULTS |->
        CASE k = "database_type" -> "DATABASE_TYPE"
          [] k = "mysql_port" -> "MYSQL_PORT"
          [] k = "mysql_password" -> "MYSQL_PASSWORD"
          [] k = "weight_exclusivity" -> "WEIGHT_EXCLUSIVITY"
          [] k = "weight_report_type" -> "WEIGHT_REPORT_TYPE"
          [] k = "weight_periodicity" -> "WEIGHT_PERIODICITY"
          [] k = "weight_maxed_out" -> "WEIGHT_MAXED_OUT"
          [] k = "weight_length" -> "WEIGHT_LENGTH"
          [] OTHER -> "WEIGHT_RACE_FOCUS"]

\* The [section] option of a key in the .ini file.
option ==
    [k \in DOMAIN DEFAULTS |->
        CASE k = "database_type" -> <<"database", "type">>
          [] k = "mysql_port" -> <<"database", "mysql_port">>
          [] k = "mysql_password" -> <<"database", "mysql_password">>
          [] OTHER -> <<"scoring", k>>]

\* The value of a key read from text: getint / int for the port, getfloat /
\* float for a weight, the text itself otherwise.
Typed(k, s) ==
    CASE k = "mysql_port" -> int(s)
      [] k \in WeightKeys -> float(s)
      [] OTHER -> s

\* parser.has_option and the read that follows it.
load_from_file(file, c) ==
    [k \in DOMAIN c |->
        IF option[k] \in DOMAIN file THEN Typed(k, file[option[k]]) ELSE c[k]]

\* if os.getenv(NAME): an unset variable and an empty one are both false.
load_from_env(env, c) ==
    [k \in DOMAIN c |->
        IF upper[k] \in DOMAIN env /\ env[upper[k]] # ""
        THEN Typed(k, env[upper[k]]) ELSE c[k]]

\* The file read after the environment.
ConfigFileLast(file, env, le) ==
    load_from_file(file, IF le THEN load_from_env(env, DEFAULTS) ELSE DEFAULTS)

\* Config.__init__.
ConfigOf(file, env, le) ==
    LET c == load_from_file(file, DEFAULTS)
    IN  IF le THEN load_from_env(env, c) ELSE c

get_score_weights(c) ==
    [exclusivity |-> c["weight_exclusivity"],
     report_type |-> c["weight_report_type"],
     periodicity |-> c["weight_periodicity"],
     maxed_out |-> c["weight_maxed_out"],
     length |-> c["weight_length"],
     race_focus |-> c["weight_race_focus"]]

\* The .ini files and the environments of the model.
FileValues ==
    (<<"database", "type">> :> "postgresql")
    @@ (<<"database", "mysql_port">> :> "5433")
    @@ (<<"database", "mysql_password">> :> "filepw")
    @@ (<<"scoring", "weight_exclusivity">> :> "2")
ConfigFiles ==
    {[o \in D |-> FileValues[o]] : D \in SUBSET DOMAIN FileValues}

EnvValues ==
    ("DATABASE_TYPE" :> {"", "mysql"})
    @@ ("MYSQL_PORT" :> {"3307"})
    @@ ("MYSQL_PASSWORD" :> {"", "envpw"})
    @@ ("WEIGHT_EXCLUSIVITY" :> {"0", "3"})
Environments ==
    UNION { {e \in [D -> UNION {EnvValues[n] : n \in D}] :
                \A n \in D : e[n] \in EnvValues[n]} :
            D \in SUBSET DOMAIN EnvValues }

(***************************************************************************)
(* DataValidator.validate_all.                                             *)
(***************************************************************************)
Candidate(id, nm) == [fecid |-> id, name |-> nm]

CandidateInputs ==
    { Candidate("H0TX01234", "TEST CANDIDATE"),
      Candidate(NULL, "INVALID CANDIDATE") }

\* An error message: the number the f-string formats, and its words.
Message(n, words) == [n |-> n, words |-> words]

\* "missing FEC ID" in str(error).
Mentions(msg, words) ==
    \E i \in 0..(Len(msg.words) - Len(words)) :
        SubSeq(msg.words, i + 1, i + Len(words)) = words

NotValidated == [called |-> FALSE]
Raised(exception) == [called |-> TRUE, raised |-> TRUE, exception |-> exception]
Returned(errors) ==
    [called |-> TRUE, raised |-> FALSE, valid |-> Len(errors) = 0,
     errors |-> errors]

\* The errors of validate_candidates; the duplicate check that follows
\* names fn, which the module never imports.
CandidateErrors(candidates) ==
    LET count == BagCardinality(candidates)
        null_fecid == CountRows(candidates,
                                {c \in Rows(candidates) : c.fecid = NULL})
    IN  IF count = 0
        THEN <<Message(0, <<"No", "candidate", "records", "found">>)>>
        ELSE IF null_fecid > 0
             THEN <<Message(null_fecid,
                            <<"candidates", "missing", "FEC", "ID">>)>>
             ELSE <<>>

CommitteeErrors(committees) ==
    LET count == Cardinality(committees)
        null_fecid == Cardinality({c \in committees : c.fecid = NULL})
    IN  IF count = 0
        THEN <<Message(0, <<"No", "committee", "records", "found">>)>>
        ELSE IF null_fecid > 0
             THEN <<Message(null_fecid,
                            <<"committees", "missing", "FEC", "ID">>)>>
             ELSE <<>>

ContributionErrors(raw, fc) ==
    (IF BagCardinality(raw) = 0
     THEN <<Message(0, <<"No", "raw", "contribution", "records", "found">>)>>
     ELSE <<>>)
    \o (IF BagCardinality(fc) = 0 /\ BagCardinality(raw) > 0
        THEN <<Message(0, <<"Filtered", "contributions", "table", "is",
                            "empty", "but", "raw", "data", "exists">>)>>
        ELSE <<>>)

\* validate_referential_integrity and validate_data_quality add warnings and
\* stats only, and catch what their queries raise.
validate_all(candidates, committees, raw, fc) ==
    IF BagCardinality(candidates) > 0
    THEN Raised("NameError")
    ELSE Returned(CandidateErrors(candidates) \o CommitteeErrors(committees)
                  \o ContributionErrors(raw, fc))

(***************************************************************************)
(* BaseFetcher.build_url.  A string is the sequence of its "/" characters  *)
(* and of its maximal runs of other characters.                            *)
(***************************************************************************)
RECURSIVE rstrip(_)
rstrip(s) ==
    IF s # <<>> /\ s[Len(s)] = "/" THEN rstrip(SubSeq(s, 1, Len(s) - 1)) ELSE s

\* The part joined as it is given.
Unstripped(s) == s

RECURSIVE lstrip(_)
lstrip(s) == IF s # <<>> /\ s[1] = "/" THEN lstrip(Tail(s)) ELSE s

\* for part in parts: url = f"{url}/{part.lstrip('/')}"
RECURSIVE Joined(_, _)
Joined(u, ps) ==
    IF ps = <<>> THEN u
    ELSE Joined(u \o <<"/">> \o lstrip(Head(ps)), Tail(ps))

build_url(base, ps) == Joined(rstrip(base), ps)

\* "https://www.fec.gov/files/bulk-downloads/"
DefaultBaseUrl ==
    <<"https:", "/", "/", "www.fec.gov", "/", "files", "/", "bulk-downloads",
      "/">>

BaseUrls ==
    { DefaultBaseUrl,
      <<"https:", "/", "/", "example.com", "/", "base">>,
      <<"https:", "/", "/", "example.com", "/", "base", "/">>,
      <<"https:", "/", "/", "example.com", "/", "base", "/", "/">> }

Parts ==
    { <<"2024">>, <<"/", "2024">>, <<"/", "/", "2024">>, <<"2024", "/">>,
      <<"file.zip">>, <<"/", "file.zip">>, <<"/">>, <<>> }

PartLists == UNION {[1..n -> Parts] : n \in 0..MaxParts}

\* No download call yet.
NoDownload == [call |-> "none", outcome |-> "none"]

(***************************************************************************)
(* The state after init: every table created and empty.                    *)
(***************************************************************************)
\* No run in progress: nothing ran yet, or the last run completed, raised,
\* or was refused by the command line.
Quiescent == pc \in {"idle", "done", "failed", "rejected"}

derived == <<total_donated_by_contributor, exclusivity_scores,
             unnormalized_length_scores, max_length_score, length_scores,
             final_scores>>

\* The tables the stages load from data/csv.
loaded == <<report_type_weights, contribution_limits, score_weights>>

\* No run in progress.
NoRun == <<>>

\* Python's None for an Optional[int]; a given integer n is <<n>>.
None == <<>>

\* compute_scores calls the stages in this order; race focus is commented
\* out.
StageOrderSwapped ==
    <<"exclusivity", "report_type", "periodicity", "length", "maxed_out",
      "final", "done">>

StageOrder ==
    <<"exclusivity", "report_type", "periodicity", "maxed_out", "length",
      "final", "done">>

Following(stage) ==
    LET i == CHOOSE k \in 1..Len(StageOrder) : StageOrder[k] = stage
    IN  StageOrder[i + 1]

\* A missing csv file: a warning is logged and the stage returns.
MissingFileFatal == "failed"

MissingFileOutcome == "skipped"

\* The rows of data/csv/report_types.csv and data/csv/limits.csv.
ReportTypeWeightRows ==
    {[report_type |-> "Q1", year_parity |-> "even", weight |-> 1]}
ContributionLimitRows ==
    {[contributor_type |-> "PAC", recipient_type |-> "CAND", cycle |-> "2024",
      contribution_limit |-> 5000]}
CsvFiles == {"report_types", "limits"}

\* data/csv/score_weights.csv: absent, or holding one row per score type.
NoFile == [exists |-> FALSE]
WeightsFile(w) ==
    [exists |-> TRUE,
     rows |-> {[score_type |-> k, weight |-> w[k]] : k \in DOMAIN w}]

InitFrom(configs, files, weight_files) ==
    /\ database_type \in DatabaseTypes
    /\ csv_files \in files
    /\ score_weights_csv \in weight_files
    /\ score_weights = {}
    /\ report_type_weights = {}
    /\ contribution_limits = {}
    /\ run_start = NoRun
    /\ rebuilt = {}
    /\ weights \in configs
    /\ sorted_field_names = FieldNames
    /\ fec_committees = {}
    /\ fec_committee_contributions = EmptyBag
    /\ fec_contributions = EmptyBag
    /\ total_donated_by_contributor = {}
    /\ exclusivity_scores = {}
    /\ unnormalized_length_scores = {}
    /\ max_length_score = {}
    /\ length_scores = {}
    /\ final_scores = EmptyBag
    /\ pc = "idle"
    /\ filter_calls = 0
    /\ filter_error = FALSE
    /\ runs_in_a_row = 0
    /\ limit = None
    /\ results = <<>>
    /\ environ = <<>>
    /\ config_file = <<>>
    /\ load_env = TRUE
    /\ config = DEFAULTS
    /\ fec_candidates = EmptyBag
    /\ validation = NotValidated
    /\ base_url = DefaultBaseUrl
    /\ parts = <<>>
    /\ url = <<>>
    /\ disk = "absent"
    /\ download = NoDownload

InitWith(configs, files) == InitFrom(configs, files, {NoFile})

\* Config.DEFAULTS: every weight 1.0.
\* No file is shipped under data/csv.
Init == InitWith({DefaultWeights}, {{}})

\* The two counters only tell a first call from a repeated one.
Capped(n) == IF n < 2 THEN n + 1 ELSE 2

(***************************************************************************)
(* The loaders and the process boundary.                                   *)
(***************************************************************************)
\* FecCommittees.load_from_csv: one more committee row.
LoadCommittee ==
    /\ Quiescent
    /\ rebuilt' = {}
    /\ \E c \in CommitteeInputs \ fec_committees :
           fec_committees' = fec_committees \cup {c}
    /\ pc' = "idle"
    /\ filter_calls' = 0
    /\ filter_error' = FALSE
    /\ runs_in_a_row' = 0
    /\ UNCHANGED <<others, database_type, weights, csv_files, sorted_field_names,
                   fec_committee_contributions, fec_contributions, derived,
                   loaded, run_start>>

\* FecCommitteeContributions.load_from_csv: one more raw row.
LoadContributionFrom(inputs) ==
    /\ Quiescent
    /\ rebuilt' = {}
    /\ BagCardinality(fec_committee_contributions) < MaxRaw
    /\ \E r \in inputs :
           fec_committee_contributions' =
               fec_committee_contributions (+) SetToBag({r})
    /\ pc' = "idle"
    /\ filter_calls' = 0
    /\ filter_error' = FALSE
    /\ runs_in_a_row' = 0
    /\ UNCHANGED <<others, database_type, weights, csv_files, sorted_field_names,
                   fec_committees, fec_contributions, derived, loaded,
                   run_start>>

LoadContribution == LoadContributionFrom(ContributionInputs)

\* A new Python process: the model classes are imported afresh.
NewProcess ==
    /\ Quiescent
    /\ sorted_field_names # FieldNames
    /\ sorted_field_names' = FieldNames
    /\ UNCHANGED <<others, database_type, weights, csv_files, fec_committees,
                   fec_committee_contributions, fec_contributions, derived,
                   loaded, run_start, rebuilt, pc, filter_calls, filter_error,
                   runs_in_a_row>>

(***************************************************************************)
(* Filter, called by a user of the library or by setup.                    *)
(***************************************************************************)
\* The body of load_from_committee_contributions: ValueError when the
\* primary key was already removed from the list, else the INSERT.
FilterBody ==
    /\ filter_calls' = Capped(filter_calls)
    /\ IF HasPrimaryKey(sorted_field_names)
       THEN /\ sorted_field_names' = RemovePrimaryKey(sorted_field_names)
            /\ fec_contributions' =
                   InsertFrom(fec_contributions,
                              FilterSelect(fec_committee_contributions,
                                           fec_committees))
            /\ filter_error' = FALSE
       ELSE /\ filter_error' = TRUE
            /\ UNCHANGED <<sorted_field_names, fec_contributions>>

Filter ==
    /\ Quiescent
    /\ rebuilt' = {}
    /\ BagCardinality(fec_contributions)
         + BagCardinality(fec_committee_contributions) <= MaxFiltered
    /\ FilterBody
    /\ pc' = "idle"
    /\ runs_in_a_row' = 0
    /\ UNCHANGED <<others, database_type, weights, csv_files, fec_committees,
                   fec_committee_contributions, derived, loaded, run_start>>

(***************************************************************************)
(* compute_scores, stage by stage.                                         *)
(***************************************************************************)
Setup ==
    /\ Quiescent
    /\ IF fec_contributions = EmptyBag
       THEN /\ FilterBody
            /\ pc' = IF filter_error' THEN "failed" ELSE StageOrder[1]
            /\ runs_in_a_row' = IF filter_error' THEN 0 ELSE runs_in_a_row
       ELSE /\ pc' = StageOrder[1]
            /\ UNCHANGED <<sorted_field_names, fec_contributions, filter_calls,
                           filter_error, runs_in_a_row>>
    /\ run_start' = IF pc' = "failed" THEN NoRun ELSE derived
    /\ rebuilt' = {}
    /\ UNCHANGED <<others, database_type, weights, csv_files, fec_committees,
                   fec_committee_contributions, derived, loaded>>

\* setup whose INSERT ... SELECT is interrupted (a storage error, a signal):
\* keys.remove has run, no row is inserted, and the exception leaves
\* compute_scores.
SetupInterrupted ==
    /\ Quiescent
    /\ fec_contributions = EmptyBag
    /\ HasPrimaryKey(sorted_field_names)
    /\ sorted_field_names' = RemovePrimaryKey(sorted_field_names)
    /\ filter_calls' = Capped(filter_calls)
    /\ filter_error' = TRUE
    /\ pc' = "failed"
    /\ runs_in_a_row' = 0
    /\ rebuilt' = {}
    /\ UNCHANGED <<others, database_type, weights, csv_files, fec_committees,
                   fec_committee_contributions, fec_contributions, derived,
                   loaded, run_start>>

\* The compute command: it exits with status 1 when fec_contributions is
\* empty, before the calculator is built; else it calls compute_scores, whose
\* setup finds the table populated.
CliCompute ==
    /\ Quiescent
    /\ rebuilt' = {}
    /\ IF fec_contributions = EmptyBag
       THEN /\ pc' = "rejected"
            /\ run_start' = NoRun
            /\ runs_in_a_row' = 0
       ELSE /\ pc' = StageOrder[1]
            /\ run_start' = derived
            /\ UNCHANGED runs_in_a_row
    /\ UNCHANGED <<others, database_type, weights, csv_files, sorted_field_names,
                   fec_committees, fec_committee_contributions,
                   fec_contributions, derived, loaded, filter_calls,
                   filter_error>>

\* The stage adding its rows to the table without dropping it.
ComputeExclusivityScoresIncremental ==
    /\ pc = "exclusivity"
    /\ total_donated_by_contributor' = TotalRows(fec_contributions)
    /\ exclusivity_scores' =
           exclusivity_scores
           \cup ExclusivityRows(fec_contributions,
                                total_donated_by_contributor')
    /\ pc' = Following("exclusivity")
    /\ rebuilt' = rebuilt \cup {"total_donated_by_contributor"}
    /\ UNCHANGED <<others, database_type, weights, csv_files, sorted_field_names,
                   fec_committees, fec_committee_contributions,
                   fec_contributions, unnormalized_length_scores,
                   max_length_score, length_scores, final_scores, loaded,
                   run_start, filter_calls, filter_error, runs_in_a_row>>

ComputeExclusivityScores ==
    /\ pc = "exclusivity"
    /\ total_donated_by_contributor' = TotalRows(fec_contributions)
    /\ exclusivity_scores' =
           ExclusivityRows(fec_contributions, total_donated_by_contributor')
    /\ pc' = Following("exclusivity")
    /\ rebuilt' = rebuilt \cup {"total_donated_by_contributor",
                                 "exclusivity_scores"}
    /\ UNCHANGED <<others, database_type, weights, csv_files, sorted_field_names,
                   fec_committees, fec_committee_contributions,
                   fec_contributions, unnormalized_length_scores,
                   max_length_score, length_scores, final_scores, loaded,
                   run_start, filter_calls, filter_error, runs_in_a_row>>

\* report_type_scores, periodicity_scores and maxed_out_scores are created
\* empty and never filled: the three stages leave the other tables alone.
\* With its csv file the stage reloads report_type_weights; without it the
\* stage logs a warning and returns.
ComputeReportTypeScores ==
    /\ pc = "report_type"
    /\ IF "report_types" \in csv_files
       THEN /\ report_type_weights' = ReportTypeWeightRows
            /\ rebuilt' = rebuilt \cup {"report_type_weights",
                                         "report_type_scores"}
            /\ pc' = Following("report_type")
       ELSE /\ UNCHANGED <<report_type_weights, rebuilt>>
            /\ pc' = IF MissingFileOutcome = "skipped"
                     THEN Following("report_type") ELSE "failed"
    /\ UNCHANGED <<others, database_type, weights, csv_files, sorted_field_names,
                   fec_committees, fec_committee_contributions,
                   fec_contributions, derived, contribution_limits, score_weights, run_start,
                   filter_calls, filter_error, runs_in_a_row>>

\* The stage with every other derived table emptied as well.
ComputePeriodicityScoresDroppingAll ==
    /\ pc = "periodicity"
    /\ pc' = Following("periodicity")
    /\ rebuilt' = rebuilt \cup {"periodicity_scores"}
    /\ total_donated_by_contributor' = {}
    /\ exclusivity_scores' = {}
    /\ UNCHANGED <<others, database_type, weights, csv_files, sorted_field_names,
                   fec_committees, fec_committee_contributions,
                   fec_contributions, unnormalized_length_scores,
                   max_length_score, length_scores, final_scores, loaded,
                   run_start, filter_calls, filter_error, runs_in_a_row>>

ComputePeriodicityScores ==
    /\ pc = "periodicity"
    /\ pc' = Following("periodicity")
    /\ rebuilt' = rebuilt \cup {"periodicity_scores"}
    /\ UNCHANGED <<others, database_type, weights, csv_files, sorted_field_names,
                   fec_committees, fec_committee_contributions,
                   fec_contributions, derived, loaded, run_start,
                   filter_calls, filter_error, runs_in_a_row>>

ComputeMaxedOutScores ==
    /\ pc = "maxed_out"
    /\ IF "limits" \in csv_files
       THEN /\ contribution_limits' = ContributionLimitRows
            /\ rebuilt' = rebuilt \cup {"contribution_limits",
                                         "maxed_out_scores"}
            /\ pc' = Following("maxed_out")
       ELSE /\ UNCHANGED <<contribution_limits, rebuilt>>
            /\ pc' = IF MissingFileOutcome = "skipped"
                     THEN Following("maxed_out") ELSE "failed"
    /\ UNCHANGED <<others, database_type, weights, csv_files, sorted_field_names,
                   fec_committees, fec_committee_contributions,
                   fec_contributions, derived, report_type_weights, score_weights, run_start,
                   filter_calls, filter_error, runs_in_a_row>>

\* The INSERT raises where DATEDIFF is missing or a NOT NULL column would
\* hold NULL.
LengthInsertOk(db, rows) == HasDateDiff(db) /\ \A r \in rows : NotNullOk(r)

\* The except branch logs the error and leaves length_scores empty; the
\* stage returns normally.
ComputeLengthScores ==
    /\ pc = "length"
    /\ LET rows == LengthRows(fec_contributions)
       IN  IF LengthInsertOk(database_type, rows)
           THEN /\ unnormalized_length_scores' = rows
                /\ max_length_score' = {MaxLength(rows)}
                /\ length_scores' = NormalizedLengthRows(rows, MaxLength(rows))
                /\ rebuilt' = rebuilt \cup {"unnormalized_length_scores",
                                             "max_length_score",
                                             "length_scores"}
           ELSE /\ unnormalized_length_scores' = {}
                /\ length_scores' = {}
                /\ UNCHANGED max_length_score
                /\ rebuilt' = rebuilt \cup {"unnormalized_length_scores",
                                             "length_scores"}
    /\ pc' = Following("length")
    /\ UNCHANGED <<others, database_type, weights, csv_files, sorted_field_names,
                   fec_committees, fec_committee_contributions,
                   fec_contributions, total_donated_by_contributor,
                   exclusivity_scores, final_scores, loaded, run_start,
                   filter_calls, filter_error, runs_in_a_row>>

\* MySQL raises "Division by 0" in an INSERT; SQLite yields NULL.
DivisionByZeroRaises(db) == db = "mysql"

\* Some joined row makes the SELECT divide by a total of 0.
DividesByZero(fc, es, ls) ==
    \E j \in JoinedRows(fc, es, ls) :
        j[2].present /\ j[2].row.total_by_pac = 0

\* With its csv file the stage reloads score_weights; the query takes its
\* two weights from self.weights either way.  final_scores is dropped and
\* recreated, then filled by one INSERT ... SELECT; an error of the INSERT is
\* logged and raised again.
ComputeFinalScores ==
    /\ pc = "final"
    /\ LET rows == FinalSelect(fec_contributions, exclusivity_scores,
                               length_scores, weights)
           raises == DivisionByZeroRaises(database_type)
                     /\ DividesByZero(fec_contributions, exclusivity_scores,
                                      length_scores)
       IN  IF FinalInsertOk(rows) /\ ~raises
           THEN /\ final_scores' = FinalDropped(final_scores) (+) rows
                /\ pc' = Following("final")
                /\ runs_in_a_row' = Capped(runs_in_a_row)
           ELSE /\ final_scores' = FinalDropped(final_scores)
                /\ pc' = "failed"
                /\ runs_in_a_row' = 0
    /\ run_start' = NoRun
    /\ IF score_weights_csv.exists
       THEN /\ score_weights' = score_weights_csv.rows
            /\ rebuilt' = rebuilt \cup {"score_weights", "final_scores"}
       ELSE /\ UNCHANGED score_weights
            /\ rebuilt' = rebuilt \cup {"final_scores"}
    /\ UNCHANGED <<others, database_type, weights, csv_files, sorted_field_names,
                   fec_committees, fec_committee_contributions,
                   fec_contributions, total_donated_by_contributor,
                   exclusivity_scores, unnormalized_length_scores,
                   max_length_score, length_scores, report_type_weights,
                   contribution_limits, filter_calls, filter_error>>

Next ==
    \/ LoadCommittee
    \/ LoadContribution
    \/ NewProcess
    \/ Filter
    \/ Setup
    \/ ComputeExclusivityScores
    \/ ComputeReportTypeScores
    \/ ComputePeriodicityScores
    \/ ComputeMaxedOutScores
    \/ ComputeLengthScores
    \/ ComputeFinalScores

Spec == Init /\ [][Next]_vars

(***************************************************************************)
(* The pipeline under configured weights, on the rows of the spec's two    *)
(* scenarios and a refund.                                                 *)
(***************************************************************************)
ScenarioInputs ==
    { Contribution("C1", "PAC ONE", "R1", "REC ONE", 600, 0),
      Contribution("C1", "PAC ONE", "R2", "REC TWO", 400, 0),
      Contribution("C1", "PAC ONE", "R1", "REC ONE", 400, 100),
      Contribution("C1", "PAC ONE", "R2", "REC TWO", -100, NullDate) }

InitConfigured == InitWith(WeightConfigs, {{}})

LoadScenarioContribution == LoadContributionFrom(ScenarioInputs)

NextConfigured ==
    \/ LoadCommittee
    \/ LoadScenarioContribution
    \/ NewProcess
    \/ Filter
    \/ Setup
    \/ ComputeExclusivityScores
    \/ ComputeReportTypeScores
    \/ ComputePeriodicityScores
    \/ ComputeMaxedOutScores
    \/ ComputeLengthScores
    \/ ComputeFinalScores

SpecConfigured == InitConfigured /\ [][NextConfigured]_vars

(***************************************************************************)
(* The pipeline in its environment: with or without the csv files, started *)
(* from the library or from the command line, and interrupted in setup.    *)
(***************************************************************************)
EnvironmentInputs ==
    { Contribution("C1", "PAC ONE", "R1", "REC ONE", 400, 0),
      Contribution("C1", "PAC ONE", "R1", "REC ONE", 400, 100),
      Contribution("C1", "PAC ONE", "R2", "REC TWO", -400, 0),
      Contribution("C1", "PAC ONE", NULL, NULL, 600, 0) }

InitEnvironment == InitWith({DefaultWeights}, SUBSET CsvFiles)

LoadEnvironmentContribution == LoadContributionFrom(EnvironmentInputs)

NextEnvironment ==
    \/ LoadCommittee
    \/ LoadEnvironmentContribution
    \/ NewProcess
    \/ Filter
    \/ Setup
    \/ SetupInterrupted
    \/ CliCompute
    \/ ComputeExclusivityScores
    \/ ComputeReportTypeScores
    \/ ComputePeriodicityScores
    \/ ComputeMaxedOutScores
    \/ ComputeLengthScores
    \/ ComputeFinalScores

SpecEnvironment == InitEnvironment /\ [][NextEnvironment]_vars


(***************************************************************************)
(* The pipeline under weights of 0 and with a score-weights file.          *)
(***************************************************************************)
WeightChoices ==
    { DefaultWeights,
      [DefaultWeights EXCEPT !.exclusivity = 0, !.length = 0],
      [DefaultWeights EXCEPT !.exclusivity = 0] }

WeightFiles ==
    { NoFile,
      WeightsFile(DefaultWeights),
      WeightsFile([DefaultWeights EXCEPT !.exclusivity = 3]) }

WeightInputs ==
    { Contribution("C1", "PAC ONE", "R1", "REC ONE", 600, 0),
      Contribution("C1", "PAC ONE", "R2", "REC TWO", 400, 0),
      Contribution("C1", "PAC ONE", "R1", "REC ONE", 400, 100) }

InitWeights == InitFrom(WeightChoices, {{}}, WeightFiles)

LoadWeightContribution == LoadContributionFrom(WeightInputs)

NextWeights ==
    \/ LoadWeightContribution
    \/ Setup
    \/ ComputeExclusivityScores
    \/ ComputeReportTypeScores
    \/ ComputePeriodicityScores
    \/ ComputeMaxedOutScores
    \/ ComputeLengthScores
    \/ ComputeFinalScores

SpecWeights == InitWeights /\ [][NextWeights]_vars

(***************************************************************************)
(* Config(config_file, load_env) built in some environment.                *)
(***************************************************************************)
\* A process builds its Config once, when it starts.
NewConfig ==
    /\ <<environ, config_file, load_env, config>> = <<<<>>, <<>>, TRUE, DEFAULTS>>
    /\ \E file \in ConfigFiles, env \in Environments, le \in BOOLEAN :
           /\ config_file' = file
           /\ environ' = env
           /\ load_env' = le
           /\ config' = ConfigOf(file, env, le)
    /\ UNCHANGED <<limit, results, fec_candidates, validation, base_url,
                   parts, url, disk, download, database_type, weights, csv_files, score_weights_csv,
                   sorted_field_names, fec_committees,
                   fec_committee_contributions, fec_contributions, derived,
                   loaded, run_start, rebuilt, pc, filter_calls, filter_error,
                   runs_in_a_row>>

NextConfig == NewConfig

SpecConfig == Init /\ [][NextConfig]_vars

(***************************************************************************)
(* The validator over the loaded tables.                                   *)
(***************************************************************************)
\* FecCandidates.create: one more candidate row.
LoadCandidate ==
    /\ Quiescent
    /\ BagCardinality(fec_candidates) < MaxCandidates
    /\ \E c \in CandidateInputs :
           fec_candidates' = fec_candidates (+) SetToBag({c})
    /\ UNCHANGED <<limit, results, environ, config_file, load_env, config,
                   validation, base_url, parts, url, disk, download,
                   database_type, weights,
                   csv_files, score_weights_csv,
                   sorted_field_names, fec_committees,
                   fec_committee_contributions, fec_contributions, derived,
                   loaded, run_start, rebuilt, pc, filter_calls, filter_error,
                   runs_in_a_row>>

ValidateAll ==
    /\ Quiescent
    /\ validation' = validate_all(fec_candidates, fec_committees,
                                  fec_committee_contributions,
                                  fec_contributions)
    /\ UNCHANGED <<limit, results, environ, config_file, load_env, config,
                   fec_candidates, base_url, parts, url, disk, download,
                   database_type,
                   weights, csv_files, score_weights_csv,
                   sorted_field_names, fec_committees,
                   fec_committee_contributions, fec_contributions, derived,
                   loaded, run_start, rebuilt, pc, filter_calls, filter_error,
                   runs_in_a_row>>

ValidationInputs ==
    { Contribution("C1", "PAC ONE", "R1", "REC ONE", 600, 0),
      Contribution("C1", "PAC ONE", "R2", "REC TWO", -100, NullDate) }

LoadValidationContribution == LoadContributionFrom(ValidationInputs)

NextValidation ==
    \/ LoadCandidate
    \/ LoadCommittee
    \/ LoadValidationContribution
    \/ Filter
    \/ ValidateAll

SpecValidation == Init /\ [][NextValidation]_vars

(***************************************************************************)
(* The fetcher.                                                            *)
(***************************************************************************)
\* A fetch builds its URL once: BaseFetcher(base_url).build_url(*parts).
BuildUrl ==
    /\ url = <<>>
    /\ \E base \in BaseUrls, ps \in PartLists :
           /\ base_url' = base
           /\ parts' = ps
           /\ url' = build_url(base, ps)
    /\ UNCHANGED <<limit, results, environ, config_file, load_env, config,
                   fec_candidates, validation, disk, download, database_type,
                   weights, csv_files, score_weights_csv, sorted_field_names, fec_committees,
                   fec_committee_contributions, fec_contributions, derived,
                   loaded, run_start, rebuilt, pc, filter_calls, filter_error,
                   runs_in_a_row>>

\* download_file(url) when the server and the connection behave as network
\* says: the call and how it ended, and the file it leaves.
download_file(file, network) ==
    IF file # "absent"
    THEN [outcome |-> "returned", file |-> file]
    ELSE CASE network = "refused" ->
                  [outcome |-> "RequestException", file |-> "absent"]
           [] network = "broken" ->
                  [outcome |-> "RequestException", file |-> "partial"]
           [] OTHER -> [outcome |-> "returned", file |-> "complete"]

Networks == {"ok", "refused", "broken"}

DownloadFile ==
    /\ url # <<>>
    /\ \E network \in Networks :
           LET d == download_file(disk, network)
           IN  /\ disk' = d.file
               /\ download' = [call |-> "download_file", outcome |-> d.outcome]
    /\ UNCHANGED <<limit, results, environ, config_file, load_env, config,
                   fec_candidates, validation, base_url, parts, url,
                   database_type, weights, csv_files, score_weights_csv, sorted_field_names,
                   fec_committees, fec_committee_contributions,
                   fec_contributions, derived, loaded, run_start, rebuilt, pc,
                   filter_calls, filter_error, runs_in_a_row>>

\* download_and_extract(url, keep_zip): ZipFile raises BadZipFile on a file
\* that is not a whole archive; the archive is removed after extraction
\* unless keep_zip.
DownloadAndExtract ==
    /\ url # <<>>
    /\ \E network \in Networks, keep_zip \in BOOLEAN :
           LET d == download_file(disk, network)
           IN  IF d.outcome # "returned"
               THEN /\ disk' = d.file
                    /\ download' = [call |-> "download_and_extract",
                                    outcome |-> d.outcome]
               ELSE IF d.file = "partial"
                    THEN /\ disk' = d.file
                         /\ download' = [call |-> "download_and_extract",
                                         outcome |-> "BadZipFile"]
                    ELSE /\ disk' = IF keep_zip THEN d.file ELSE "absent"
                         /\ download' = [call |-> "download_and_extract",
                                         outcome |-> "returned"]
    /\ UNCHANGED <<limit, results, environ, config_file, load_env, config,
                   fec_candidates, validation, base_url, parts, url,
                   database_type, weights, csv_files, score_weights_csv, sorted_field_names,
                   fec_committees, fec_committee_contributions,
                   fec_contributions, derived, loaded, run_start, rebuilt, pc,
                   filter_calls, filter_error, runs_in_a_row>>

NextFetcher ==
    \/ BuildUrl
    \/ DownloadFile
    \/ DownloadAndExtract

SpecFetcher == Init /\ [][NextFetcher]_vars

(***************************************************************************)
(* get_results: the query over final_scores.                               *)
(***************************************************************************)
\* if limit: None and 0 are both false.
Truthy(lim) == lim # None /\ lim[1] # 0

\* ORDER BY final_score DESC: every listing of the table's rows by
\* non-increasing final_score; the engine orders equal scores as it likes.
OrderByFinalScoreDesc(table) ==
    LET n == BagCardinality(table)
    IN  {s \in [1..n -> Rows(table)] :
            /\ \A row \in Rows(table) :
                   Cardinality({i \in 1..n : s[i] = row}) = table[row]
            /\ \A i, j \in 1..n :
                   i < j => RLe(s[j].final_score, s[i].final_score)}

\* LIMIT n: the first n rows of the listing.
Limited(s, n) == SubSeq(s, 1, IF n < Len(s) THEN n ELSE Len(s))

Limits == {None, <<0>>, <<1>>, <<2>>, <<3>>}

GetResults ==
    /\ Quiescent
    /\ \E lim \in Limits, s \in OrderByFinalScoreDesc(final_scores) :
           /\ limit' = lim
           /\ results' = IF Truthy(lim) THEN Limited(s, lim[1]) ELSE s
    /\ UNCHANGED <<environ, config_file, load_env, config, fec_candidates,
                   validation, base_url, parts, url, disk, download,
                   database_type, weights,
                   csv_files, score_weights_csv,
                   sorted_field_names, fec_committees,
                   fec_committee_contributions, fec_contributions, derived,
                   loaded, run_start, rebuilt, pc, filter_calls, filter_error,
                   runs_in_a_row>>

\* Three pairs of one contributor, two of them with equal shares.
ResultInputs ==
    { Contribution("C1", "PAC ONE", "R1", "REC ONE", 600, 0),
      Contribution("C1", "PAC ONE", "R2", "REC TWO", 400, 0),
      Contribution("C1", "PAC ONE", "R3", "REC THREE", 400, 0) }

LoadResultContribution == LoadContributionFrom(ResultInputs)

NextResults ==
    \/ LoadResultContribution
    \/ Setup
    \/ ComputeExclusivityScores
    \/ ComputeReportTypeScores
    \/ ComputePeriodicityScores
    \/ ComputeMaxedOutScores
    \/ ComputeLengthScores
    \/ ComputeFinalScores
    \/ GetResults

SpecResults == Init /\ [][NextResults]_vars

(***************************************************************************)
(* The claims.                                                             *)
(***************************************************************************)
Pairs(fc) == {<<r.fec_committee_id, r.other_id>> : r \in Rows(fc)}
FinalRowsOf(p) ==
    {row \in Rows(final_scores) : <<row.fec_committee_id, row.other_id>> = p}

\* C1: after a completed run, the number of FinalScores records equals the
\* number of distinct (contributor id, recipient id) pairs of
\* fec_contributions.
C1_PairCompleteness ==
    pc = "done" =>
        BagCardinality(final_scores) = Cardinality(Pairs(fec_contributions))

\* C2: once a run completes, no FinalScores record has a contributor id or a
\* recipient id that the committee table flags as Super PAC at that time.
C2_NoSuperPacScored ==
    pc = "done" =>
        \A row \in Rows(final_scores) :
            /\ row.fec_committee_id \notin SuperPacIds(fec_committees)
            /\ row.other_id \notin SuperPacIds(fec_committees)

\* C3: after a completed run, every exclusivity_score lies in [0, 1].
C3_ExclusivityBound ==
    pc = "done" =>
        \A row \in Rows(final_scores) :
            RLe(Zero, row.exclusivity_score) /\ RLe(row.exclusivity_score, One)

\* The rows of the spec's first scenario: C1 gives 600 to R1 and 400 to R2.
ScenarioRows ==
    SetToBag({ Contribution("C1", "PAC ONE", "R1", "REC ONE", 600, 0),
               Contribution("C1", "PAC ONE", "R2", "REC TWO", 400, 0) })

\* C4 as stated: final_score is the weighted sum of the six sub-scores over
\* the sum of the six weights, so 0.6 / 6 = 0.1 for (C1, R1) in the scenario.
C4_SixWeightAverage ==
    pc = "done" =>
        /\ \A row \in Rows(final_scores) :
               row.final_score =
                   RDivInt(RAdd(RScale(row.exclusivity_score, weights.exclusivity),
                           RAdd(RScale(row.report_type_score, weights.report_type),
                           RAdd(RScale(row.periodicity_score, weights.periodicity),
                           RAdd(RScale(row.maxed_out_score, weights.maxed_out),
                           RAdd(RScale(row.length_score, weights.length),
                                RScale(row.race_focus_score, weights.race_focus)))))),
                           SixWeightDenominator(weights))
        /\ (fec_contributions = ScenarioRows /\ weights = DefaultWeights) =>
               \A row \in FinalRowsOf(<<"C1", "R1">>) : row.final_score = <<1, 10>>

\* C4 amended: final_score is (w_excl * exclusivity_score + w_len *
\* length_score) / (w_excl + w_len); the other four sub-scores are stored as
\* 0 and their weights are not used, so (C1, R1) scores 0.6 / 2 = 0.3.
C4_TwoWeightAverage ==
    pc = "done" =>
        /\ \A row \in Rows(final_scores) :
               /\ row.final_score =
                      RDivInt(RAdd(RScale(row.exclusivity_score, weights.exclusivity),
                                   RScale(row.length_score, weights.length)),
                              weights.exclusivity + weights.length)
               /\ row.report_type_score = Zero
               /\ row.periodicity_score = Zero
               /\ row.maxed_out_score = Zero
               /\ row.race_focus_score = Zero
        /\ (fec_contributions = ScenarioRows /\ weights = DefaultWeights) =>
               \A row \in FinalRowsOf(<<"C1", "R1">>) : row.final_score = <<3, 10>>

C4_Witness ==
    /\ pc = "done"
    /\ fec_contributions = ScenarioRows
    /\ weights = DefaultWeights
    /\ \E row \in FinalRowsOf(<<"C1", "R1">>) :
           row.exclusivity_score = <<3, 5>> /\ row.final_score = <<3, 10>>
    /\ BagCardinality(final_scores) = 2

\* C5: once a run has completed and nothing was loaded since, no step of
\* a second run, completed or failed, changes final_scores: it holds exactly
\* the records of the first run.
C5_RerunIdentical ==
    [][runs_in_a_row = 1 => final_scores' = final_scores]_vars

C5_Witness ==
    /\ pc = "done"
    /\ runs_in_a_row = 2
    /\ BagCardinality(final_scores) >= 2

\* C6: a second Filter invocation on the same raw and committee tables
\* completes without error and leaves fec_contributions as the first left it.
C6_FilterIdempotent ==
    [][(filter_calls = 1 /\ filter_calls' = 2) =>
          (fec_contributions' = fec_contributions /\ ~filter_error')]_vars

\* C7: a Filter invocation emits exactly the raw rows whose contributor id
\* and recipient id are both outside S, the set of ids flagged as Super PAC,
\* rows with a missing id included, and raises nothing when S is empty.
C7_FilterEmitsExactly ==
    [][(filter_calls = 0 /\ filter_calls' = 1) =>
          LET S == {c.fecid : c \in {x \in fec_committees : x.is_super_pac}}
              raw == fec_committee_contributions
              kept == {r \in BagToSet(raw) :
                          r.fec_committee_id \notin S /\ r.other_id \notin S}
          IN  /\ ~filter_error' =>
                     fec_contributions' = fec_contributions (+) [r \in kept |-> raw[r]]
              /\ (S = {} /\ HasPrimaryKey(sorted_field_names)) => ~filter_error']_vars

\* The dated contributions of a pair, and its observed span in days.
DatedRows(p) ==
    {r \in Rows(fec_contributions) :
        <<r.fec_committee_id, r.other_id>> = p /\ r.date # NullDate}
DatedCount(p) == CountRows(fec_contributions, DatedRows(p))
Span(p) == Max({r.date : r \in DatedRows(p)}) - Min({r.date : r \in DatedRows(p)})
MultiDatedPairs == {p \in Pairs(fec_contributions) : DatedCount(p) > 1}

\* C8: after a completed run every length_score is in [0, 1], and when some
\* pair has more than one dated contribution, the pair with the longest
\* span has length_score exactly 1.
C8_LengthNormalized ==
    pc = "done" =>
        /\ \A row \in Rows(final_scores) :
               RLe(Zero, row.length_score) /\ RLe(row.length_score, One)
        /\ \A p \in MultiDatedPairs :
               (\A q \in MultiDatedPairs : Span(q) <= Span(p)) =>
                   /\ FinalRowsOf(p) # {}
                   /\ \A row \in FinalRowsOf(p) : row.length_score = One

ExclusivityRowsOf(p) ==
    {e \in exclusivity_scores : <<e.fec_committee_id, e.other_id>> = p}

\* C9: after compute_exclusivity_scores every pair of ids with a filtered
\* contribution has exactly one exclusivity row, and no other pair has one.
C9_OneExclusivityRowPerPair ==
    pc = "report_type" =>
        /\ \A p \in Pairs(fec_contributions) : Cardinality(ExclusivityRowsOf(p)) = 1
        /\ \A e \in exclusivity_scores :
               <<e.fec_committee_id, e.other_id>> \in Pairs(fec_contributions)

\* The exclusivity rows of the contributor of one row of totals.
RowsOfContributor(t) ==
    {e \in exclusivity_scores :
        /\ e.fec_committee_id = t.fec_committee_id
        /\ e.contributor_name = t.contributor_name}

ZeroTotals == {t \in total_donated_by_contributor : t.total_by_PAC = 0}

\* C11: when a contributor's total is 0 the combine stage completes without
\* raising, and each pair of that contributor gets exclusivity_score 0.
C11_ZeroTotalScoresZero ==
    [][(/\ pc = "final"
        /\ ZeroTotals # {}
        /\ \A r \in Rows(fec_contributions) : NotNullOk(r)) =>
           /\ pc' = "done"
           /\ \A row \in Rows(final_scores') :
                  (\E t \in ZeroTotals :
                      /\ t.fec_committee_id = row.fec_committee_id
                      /\ t.contributor_name = row.contributor_name) =>
                      row.exclusivity_score = <<0, 1>>]_vars

\* C12: without the report-type weighting file and the contribution-limit
\* file the two stages return normally, changing no table, and every
\* FinalScores record of the run has report_type_score 0 and
\* maxed_out_score 0.
C12_MissingTablesDegrade ==
    /\ [][/\ (pc = "report_type" /\ "report_types" \notin csv_files) =>
                 (pc' = "periodicity" /\ UNCHANGED <<derived, loaded>>)
          /\ (pc = "maxed_out" /\ "limits" \notin csv_files) =>
                 (pc' = "length" /\ UNCHANGED <<derived, loaded>>)]_vars
    /\ [](pc = "done" /\ csv_files = {} =>
             \A row \in Rows(final_scores) :
                 /\ row.report_type_score = <<0, 1>>
                 /\ row.maxed_out_score = <<0, 1>>)

C12_Witness ==
    /\ pc = "done"
    /\ csv_files = {}
    /\ report_type_weights = {}
    /\ contribution_limits = {}
    /\ \E row \in Rows(final_scores) :
           row.report_type_score = <<0, 1>> /\ row.maxed_out_score = <<0, 1>>

\* C13: with no contribution record, raw or filtered, a compute request
\* starts no scoring stage.
C13_EmptyInputRefused ==
    [][(/\ pc \in {"idle", "done", "failed", "rejected"}
        /\ fec_committee_contributions = EmptyBag
        /\ fec_contributions = EmptyBag) =>
           (pc' # "exclusivity" /\ UNCHANGED derived)]_vars

\* C14: when the INSERT of the length stage fails, compute_scores ends by
\* raising: the combine stage is not started.
C14_StageFailureRaised ==
    [][(/\ pc = "length"
        /\ ~LengthInsertOk(database_type, LengthRows(fec_contributions))) =>
           pc' = "failed"]_vars

\* C15: a run that fails in a stage leaves every derived table with the
\* records it held when the run started.
C15_FailedRunCommitsNothing ==
    [][(/\ pc \in {"exclusivity", "report_type", "periodicity", "maxed_out",
                   "length", "final"}
        /\ pc' = "failed") => derived' = run_start]_vars

\* C16: a run started after a failed or interrupted run does not raise in
\* setup: from a failed run the only steps that leave the caller failed are
\* those of a new interruption or a new process.
C16_RerunAfterFailure ==
    [][(pc = "failed" /\ pc' = "failed") =>
          sorted_field_names' # sorted_field_names]_vars

\* C17: after every completed run final_scores is what a first-ever run on
\* the present raw and committee tables produces.
C17_RecomputedFromScratch ==
    pc = "done" =>
        LET fc == FilterSelect(fec_committee_contributions, fec_committees)
            es == ExclusivityRows(fc, TotalRows(fc))
            uls == LengthRows(fc)
            ls == IF LengthInsertOk(database_type, uls)
                  THEN NormalizedLengthRows(uls, MaxLength(uls)) ELSE {}
        IN  final_scores = FinalSelect(fc, es, ls, weights)

\* The steps of a run: a stage is entered from the one before it.
Entered(order) ==
    {<<order[i], order[i + 1]>> : i \in 1..(Len(order) - 1)}
RunStep ==
    pc' # pc /\ pc' \notin {"idle", "failed", "rejected"}

C19_StagesLeaveInputsAlone ==
    [][/\ (pc' \in {"exclusivity", "report_type", "periodicity", "maxed_out",
                    "length", "final"}
           \/ pc \in {"exclusivity", "report_type", "periodicity",
                      "maxed_out", "length", "final"}) =>
              UNCHANGED <<fec_committees, fec_committee_contributions>>
       /\ pc \in {"exclusivity", "report_type", "periodicity", "maxed_out",
                  "length", "final"} => UNCHANGED fec_contributions
       /\ pc \in {"report_type", "periodicity", "maxed_out", "length", "final"} =>
              UNCHANGED <<total_donated_by_contributor, exclusivity_scores>>
       /\ pc \in {"periodicity", "maxed_out", "length", "final"} =>
              UNCHANGED report_type_weights
       /\ pc \in {"length", "final"} => UNCHANGED contribution_limits
       /\ pc = "final" =>
              UNCHANGED <<unnormalized_length_scores, max_length_score,
                          length_scores>>]_vars

C19_Witness ==
    /\ pc = "done"
    /\ fec_committee_contributions # EmptyBag
    /\ fec_committees # {}
    /\ exclusivity_scores # {}
    /\ report_type_weights # {}
    /\ contribution_limits # {}
    /\ final_scores # EmptyBag

\* The contributions of a pair, dated or not.
PairCount(p) ==
    CountRows(fec_contributions,
              {r \in Rows(fec_contributions) :
                  <<r.fec_committee_id, r.other_id>> = p})
LengthRowsOf(p) ==
    {l \in unnormalized_length_scores :
        <<l.fec_committee_id, l.other_id>> = p}

\* C20: after the length stage a pair with exactly one contribution has no
\* row in the length relation and, once the run completes, length_score 0;
\* a pair with more than one contribution, all dated, has a row whose raw
\* length is the days between its earliest and latest date.
C20_LengthPerPair ==
    /\ pc \in {"final", "done"} =>
           \A p \in Pairs(fec_contributions) :
               /\ PairCount(p) = 1 => LengthRowsOf(p) = {}
               /\ (PairCount(p) > 1 /\ DatedCount(p) = PairCount(p)) =>
                      /\ LengthRowsOf(p) # {}
                      /\ \A l \in LengthRowsOf(p) : l.length_score = Span(p)
    /\ pc = "done" =>
           \A p \in Pairs(fec_contributions) :
               PairCount(p) = 1 =>
                   \A row \in FinalRowsOf(p) : row.length_score = <<0, 1>>

\* C21: after a completed run the count of each FinalScores record is the
\* number of filtered contributions of its pair, and the counts of all
\* records sum to the number of rows of fec_contributions.
C21_CountsSumToFiltered ==
    pc = "done" =>
        /\ \A row \in Rows(final_scores) :
               row.count = PairCount(<<row.fec_committee_id, row.other_id>>)
        /\ SumFn([row \in Rows(final_scores) |-> row.count * final_scores[row]],
                 Rows(final_scores)) = BagCardinality(fec_contributions)

\* The rows of a listing, as a bag.
Listed(s) ==
    [row \in {s[i] : i \in 1..Len(s)} |->
        Cardinality({i \in 1..Len(s) : s[i] = row})]

\* C22: get_results returns FinalScores records by non-increasing
\* final_score; given a limit, 0 included, it returns at most that many, and
\* no record left out scores higher than one returned; given no limit it
\* returns every record.
C22_ResultsOrderedAndLimited ==
    [][GetResults =>
          /\ \A i, j \in 1..Len(results') :
                 i < j => RLe(results'[j].final_score, results'[i].final_score)
          /\ Listed(results') \sqsubseteq final_scores
          /\ limit' # None =>
                 /\ Len(results') <= limit'[1]
                 /\ \A i \in 1..Len(results') :
                        \A row \in Rows(final_scores (-) Listed(results')) :
                            RLe(row.final_score, results'[i].final_score)
          /\ limit' = None => Listed(results') = final_scores]_vars

\* C23 as stated: for every key the effective value is the environment
\* variable's value when the variable is set, else the file's value when the
\* file sets it, else the default; with neither, get_score_weights is the six
\* weights, each 1.0.
C23_EnvironmentWhenSet ==
    /\ \A k \in DOMAIN DEFAULTS :
           config[k] =
               IF upper[k] \in DOMAIN environ THEN Typed(k, environ[upper[k]])
               ELSE IF option[k] \in DOMAIN config_file
                    THEN Typed(k, config_file[option[k]])
                    ELSE DEFAULTS[k]
    /\ (environ = <<>> /\ config_file = <<>>) =>
           get_score_weights(config) = DefaultWeights

\* C23 amended: for every key the effective value is the environment
\* variable's value when load_env is true and the variable is set to a
\* non-empty value, else the file's value when the file sets it, else the
\* default; with neither, get_score_weights is the six weights, each 1.0.
C23_EnvironmentWhenNonEmpty ==
    /\ \A k \in DOMAIN DEFAULTS :
           config[k] =
               IF load_env /\ upper[k] \in DOMAIN environ
                           /\ environ[upper[k]] # ""
               THEN Typed(k, environ[upper[k]])
               ELSE IF option[k] \in DOMAIN config_file
                    THEN Typed(k, config_file[option[k]])
                    ELSE DEFAULTS[k]
    /\ (environ = <<>> /\ config_file = <<>>) =>
           /\ DOMAIN get_score_weights(config) =
                  {"exclusivity", "report_type", "periodicity", "maxed_out",
                   "length", "race_focus"}
           /\ \A w \in DOMAIN get_score_weights(config) :
                  get_score_weights(config)[w] = 1

C23_Witness ==
    /\ load_env
    /\ "MYSQL_PORT" \in DOMAIN environ
    /\ <<"database", "mysql_port">> \in DOMAIN config_file
    /\ config["mysql_port"] = 3307
    /\ "MYSQL_PASSWORD" \notin DOMAIN environ
    /\ config["mysql_password"] = "filepw"
    /\ config["database_type"] = "sqlite"
    /\ config["weight_exclusivity"] = 0

\* C24: whatever the candidate, committee and contribution tables hold,
\* validate_all returns a result whose valid flag is true exactly when its
\* error list is empty; on an empty database valid is false, and a candidate
\* with no FEC id gives an error mentioning "missing FEC ID".
C24_ValidateAllReturns ==
    [][ValidateAll =>
          /\ ~validation'.raised
          /\ validation'.valid <=> validation'.errors = <<>>
          /\ (/\ fec_candidates = EmptyBag
              /\ fec_committees = {}
              /\ fec_committee_contributions = EmptyBag
              /\ fec_contributions = EmptyBag) => ~validation'.valid
          /\ (\E c \in BagToSet(fec_candidates) : c.fecid = NULL) =>
                 \E i \in 1..Len(validation'.errors) :
                     Mentions(validation'.errors[i], <<"missing", "FEC", "ID">>)]_vars

\* The sub-score relations and the max-value singleton.
SubScoreRelations ==
    {"exclusivity_scores", "report_type_scores", "periodicity_scores",
     "maxed_out_scores", "length_scores", "race_focus_scores",
     "max_length_score"}

DropFirst(s, k) == SubSeq(s, k + 1, Len(s))
DropLast(s, k) == SubSeq(s, 1, Len(s) - k)
AllSlashes(s) == \A i \in 1..Len(s) : s[i] = "/"

\* The base without its trailing slashes, and a part without its leading
\* ones, found by position.
Core(base) ==
    LET k == CHOOSE n \in 0..Len(base) :
                 /\ AllSlashes(SubSeq(base, Len(base) - n + 1, Len(base)))
                 /\ (n < Len(base) => base[Len(base) - n] # "/")
    IN  DropLast(base, k)
Rest(part) ==
    LET k == CHOOSE n \in 0..Len(part) :
                 /\ AllSlashes(SubSeq(part, 1, n))
                 /\ (n < Len(part) => part[n + 1] # "/")
    IN  DropFirst(part, k)

\* One "/" and the rest of each part, in order.
RECURSIVE SlashThenRest(_)
SlashThenRest(ps) ==
    IF ps = <<>> THEN <<>>
    ELSE <<"/">> \o Rest(Head(ps)) \o SlashThenRest(Tail(ps))

C30_ReturnsOnlyCompleteFiles ==
    (download.call = "download_file" /\ download.outcome = "returned") =>
        disk = "complete"

\* C27: when the raw table holds a record that involves no Super PAC, the
\* compute command does not stop with "No contribution data found": it
\* starts the pipeline.
C27_ComputeAfterLoad ==
    [][(/\ pc \in {"idle", "done", "failed"}
        /\ FilterSelect(fec_committee_contributions, fec_committees)
               # EmptyBag) => pc' # "rejected"]_vars

\* C28: on rows the INSERT can store, the combine stage completes without
\* raising under every configuration of non-negative weights, the one with
\* exclusivity and length weight 0 included, and every final_score is a
\* number.
C28_CombineUnderAnyWeights ==
    [][(/\ pc = "final"
        /\ \A r \in Rows(fec_contributions) : NotNullOk(r)
        /\ ~DividesByZero(fec_contributions, exclusivity_scores,
                          length_scores)) =>
           /\ pc' = "done"
           /\ \A row \in Rows(final_scores') : row.final_score # NullNum]_vars

\* The weight the score-weights file gives a score type.
FileWeight(type) ==
    LET row == CHOOSE r \in score_weights_csv.rows : r.score_type = type
    IN  row.weight

\* C29: when a score-weights file is present, every final_score of a
\* completed run is the average of the exclusivity and length scores under
\* the weights of the file.
C29_FileWeightsUsed ==
    (pc = "done" /\ score_weights_csv.exists) =>
        \A row \in Rows(final_scores) :
            row.final_score =
                RDivInt(RAdd(RScale(row.exclusivity_score,
                                    FileWeight("exclusivity")),
                             RScale(row.length_score, FileWeight("length"))),
                        FileWeight("exclusivity") + FileWeight("length"))

====
